---- MODULE Spec2Model ----
(***************************************************************************)
(* Model of the inverse-kinematics scene of src/frontend/scene3d.js:       *)
(* the two IK chains (camera, light), the FABRIK solver with its -X pole   *)
(* bias (solveIK), the end-effector orientation step (updateIKChain) and   *)
(* the per-frame driver (updateFrame, updateHandPosition, setPoses); and   *)
(* of the playback page of src/unnamed/part_000 that drives it: image      *)
(* list fetch, metadata event, play/pause button and the animation-frame   *)
(* loop.  part_000 holds two scripts for that page, one with the warning   *)
(* line (PlaybackSpec) and one with a scrubber; PagesSpec takes either.    *)
(*                                                                         *)
(* Numbers.  The program computes in IEEE doubles; TLC has 32-bit          *)
(* integers.  Lengths are fixed-point integers with Scale steps per        *)
(* millimetre, unit vectors and rotation entries are fixed-point integers  *)
(* with RotOne steps per 1.0, and every division rounds to the nearest     *)
(* step.  One re-projection is therefore accurate to about two steps       *)
(* (0.02 mm).  Rotations are kept as 3x3 rotation matrices: the matrix of  *)
(* a unit quaternion is the rotation it stands for, Quaternion.multiply is *)
(* the matrix product and Quaternion.invert the transpose.                 *)
(*                                                                         *)
(* Sequences are 1-based: the code's p[i] is p[i+1] here, the code's       *)
(* segments[i] is joint i+1 here.                                          *)
(***************************************************************************)
EXTENDS Integers, Sequences, FiniteSets, TLC

VARIABLES
    joints,        \* joints[name][i]: local rotation of segments[i-1].group
    eeQuat,        \* eeQuat[name]: local rotation of chain.endEffector
    poses,         \* this.poses: NULL until setPoses
    currentFrame,  \* this.currentFrame
    hand,          \* this.hand.position, in thirds of a millimetre
    pc,            \* position of the running call
    ctx,           \* the caller of the running updateIKChain, or
                   \* "thrown" when the last updateFrame ended in a TypeError
    cur,           \* name argument of the running updateIKChain
    targetPos,     \* targetPos argument of the running updateIKChain
    targetRot,     \* targetRot argument of the running updateIKChain
    p,             \* joint position buffer of the running solveIK
    iter,          \* loop counter of the running solveIK
    solveLog,      \* history: per chain, the targets solveIK was called with
                   \* since the running updateFrame began
    solves,        \* number of updateIKChain calls made by updateFrame
    app,           \* the playback page: the listener's variables, the
                   \* elements it writes and its pending callbacks
    twin           \* shadow of the running solveIK: the same call from
                   \* the same joint rotations on a neighbouring target

\* The 3D scene's part of the state.
sceneVars == << joints, eeQuat, poses, currentFrame, hand, pc, ctx, cur,
                targetPos, targetRot, p, iter, solveLog, solves, twin >>

vars == << joints, eeQuat, poses, currentFrame, hand, pc, ctx, cur,
           targetPos, targetRot, p, iter, solveLog, solves, app, twin >>

\* null: no pose list, no rotation.
NULL == << >>

\* ------------------------------------------------------------- constants
numJoints == 3
segmentLength == 250
baseJointHeight == 40
iterationCount == 10
pushAmount == 5

\* Fixed-point resolution (steps per millimetre, steps per 1.0).
Scale == 2^7
RotOne == 2^14

\* Bound of the exploration: updateFrame calls that reach the solver.
MaxSolves == 2

ChainNames == {"camera", "light"}

\* ------------------------------------------------------------ arithmetic
Abs(a) == IF a < 0 THEN -a ELSE a

Max(a, b) == IF a < b THEN b ELSE a

\* a / b rounded to the nearest integer, halves away from zero (b > 0).
RoundDiv(a, b) ==
    IF a >= 0 THEN (2 * a + b) \div (2 * b)
    ELSE -((2 * (-a) + b) \div (2 * b))

\* a / b truncated toward zero (b > 0).
TruncDiv(a, b) == IF a >= 0 THEN a \div b ELSE -((-a) \div b)

RECURSIVE SqrtSearch(_, _, _)
SqrtSearch(n, lo, hi) ==
    IF lo >= hi THEN lo
    ELSE LET mid == (lo + hi + 1) \div 2
         IN  IF mid * mid <= n THEN SqrtSearch(n, mid, hi)
             ELSE SqrtSearch(n, lo, mid - 1)

\* Math.sqrt, rounded to the nearest integer (0 <= n < 2^31).
Sqrt(n) ==
    LET s == SqrtSearch(n, 0, 46340)
    IN  IF n - s * s > s THEN s + 1 ELSE s

\* --------------------------------------------------------------- vectors
Zero3 == << 0, 0, 0 >>

VAdd(a, b) == << a[1] + b[1], a[2] + b[2], a[3] + b[3] >>

VSub(a, b) == << a[1] - b[1], a[2] - b[2], a[3] - b[3] >>

Dot(a, b) == a[1] * b[1] + a[2] * b[2] + a[3] * b[3]

MaxAbs(v) == Max(Abs(v[1]), Max(Abs(v[2]), Abs(v[3])))

\* v brought to a magnitude whose squares fit 32 bits: a short vector is
\* multiplied (exactly), a long one divided, so that the largest component
\* lies in (RotOne/2, RotOne].  The direction is kept.
Conditioned(v) ==
    LET m == MaxAbs(v)
    IN  IF m = 0 THEN v
        ELSE IF m > RotOne
        THEN LET k == (m \div RotOne) + 1
             IN  << TruncDiv(v[1], k), TruncDiv(v[2], k), TruncDiv(v[3], k) >>
        ELSE LET k == RotOne \div m
             IN  << v[1] * k, v[2] * k, v[3] * k >>

\* Vector3.length() of a millimetre vector, in steps of 1/Scale mm.
Length(v) ==
    LET m == MaxAbs(v)
        c == Conditioned(v)
        s == Sqrt(Dot(c, c))
    IN  IF m = 0 THEN 0
        ELSE IF m > RotOne THEN s * ((m \div RotOne) + 1)
        ELSE RoundDiv(s, RotOne \div m)

\* Vector3.normalize(): divideScalar(length() || 1).  The zero vector has
\* length 0, is divided by 1 and stays the zero vector.  The result is a
\* unit vector in steps of 1/RotOne.
Normalize(v) ==
    LET c == Conditioned(v)
        s == Sqrt(Dot(c, c))
    IN  IF MaxAbs(v) = 0 THEN Zero3
        ELSE << RoundDiv(c[1] * RotOne, s),
                RoundDiv(c[2] * RotOne, s),
                RoundDiv(c[3] * RotOne, s) >>

\* dir.multiplyScalar(len): a unit vector (steps of 1/RotOne) times a length
\* in millimetres, as a millimetre vector (steps of 1/Scale).
MultiplyScalar(dir, len) ==
    << RoundDiv(dir[1] * (len * Scale), RotOne),
       RoundDiv(dir[2] * (len * Scale), RotOne),
       RoundDiv(dir[3] * (len * Scale), RotOne) >>

\* A point given in whole millimetres.
Mm(x, y, z) == << x * Scale, y * Scale, z * Scale >>

\* ------------------------------------------------------------- rotations
\* A rotation is a 3x3 matrix << row1, row2, row3 >>, entries in steps of
\* 1/RotOne.
Identity3 ==
    << << RotOne, 0, 0 >>, << 0, RotOne, 0 >>, << 0, 0, RotOne >> >>

Col(m, j) == << m[1][j], m[2][j], m[3][j] >>

\* Quaternion.multiply: the rotation a * b (b applied first).
MatMul(a, b) ==
    [i \in 1..3 |-> [j \in 1..3 |-> RoundDiv(Dot(a[i], Col(b, j)), RotOne)]]

\* Quaternion.invert of a unit quaternion: the inverse rotation.
Invert(m) == << Col(m, 1), Col(m, 2), Col(m, 3) >>

\* Vector3.applyQuaternion, for a unit vector.
ApplyQuaternion(m, v) ==
    << RoundDiv(Dot(m[1], v), RotOne),
       RoundDiv(Dot(m[2], v), RotOne),
       RoundDiv(Dot(m[3], v), RotOne) >>

\* Quaternion.setFromUnitVectors((0,0,1), d).  three.js takes r = dot + 1
\* and the quaternion (cross, r), normalized: for d = (a,b,c) that is
\* (-b, a, 0, 1+c)/sqrt(2(1+c)), whose rotation matrix is the one below.
\* r = 0 (d opposite to +Z) gives the quaternion (0,-1,0,0), the half turn
\* about Y.  The zero vector gives r = 1 with a zero cross product: the
\* identity.
SetFromUnitVectorsZ(d) ==
    LET a == d[1]
        b == d[2]
        c == d[3]
        r == RotOne + c
    IN  IF d = Zero3 THEN Identity3
        ELSE IF r <= 0
        THEN << << -RotOne, 0, 0 >>, << 0, RotOne, 0 >>, << 0, 0, -RotOne >> >>
        ELSE << << RotOne - RoundDiv(a * a, r), -RoundDiv(a * b, r), a >>,
                << -RoundDiv(a * b, r), RotOne - RoundDiv(b * b, r), b >>,
                << -a, -b, c >> >>

\* ---------------------------------------------------------------- chains
\* createDynamicArms: chain roots (chainGroup.position).
BasePos(name) == IF name = "camera" THEN Mm(0, -500, 0) ELSE Mm(0, 500, 0)

\* new THREE.Vector3(0, 0, 40).applyMatrix4(chain.root.matrixWorld): the
\* root has no rotation and no scale.
BaseJointWorldPos(name) == VAdd(BasePos(name), Mm(0, 0, baseJointHeight))

\* createIKChain: every joint group starts with the identity rotation.
InitialJoints == [i \in 1..numJoints |-> Identity3]

\* getWorldQuaternion of joint i (0 = the chain root) for the joint
\* rotations js of one chain.
RECURSIVE WorldQuat(_, _)
WorldQuat(js, i) ==
    IF i = 0 THEN Identity3 ELSE MatMul(WorldQuat(js, i - 1), js[i])

\* getWorldPosition of joint i (numJoints + 1 = the end effector): each
\* group sits at (0, 0, segmentLength) in its parent joint's frame.
RECURSIVE WorldPos(_, _, _)
WorldPos(name, js, i) ==
    IF i = 1 THEN BaseJointWorldPos(name)
    ELSE VAdd(WorldPos(name, js, i - 1),
              MultiplyScalar(Col(WorldQuat(js, i - 1), 3), segmentLength))

\* solveIK step 1: the buffer p read from the chain's present rotations.
ExtractPositions(name, js) ==
    [i \in 1..(numJoints + 1) |-> WorldPos(name, js, i)]

\* ----------------------------------------------------------------- FABRIK
poleDir == << -1, 0, 0 >>

\* poleDir.clone().multiplyScalar(5)
PoleBias == << poleDir[1] * pushAmount * Scale,
               poleDir[2] * pushAmount * Scale,
               poleDir[3] * pushAmount * Scale >>

\* p[i].copy(p[i+1]).add(dir.multiplyScalar(lengths[i])) with
\* dir = normalize(p[i] - p[i+1]): q[i] re-projected around q[i+1].
RECURSIVE BackwardFrom(_, _)
BackwardFrom(q, i) ==
    IF i = 0 THEN q
    ELSE LET dir == Normalize(VSub(q[i], q[i + 1]))
             qi  == VAdd(q[i + 1], MultiplyScalar(dir, segmentLength))
         IN  BackwardFrom([q EXCEPT ![i] = qi], i - 1)

\* Backward reaching: the end effector is set to the target, then every
\* point from the last joint down to the base is re-projected.
BackwardReaching(q, target) ==
    BackwardFrom([q EXCEPT ![numJoints + 1] = target], numJoints)

\* Faulty variant of Biased: every point is pushed, the end effector's
\* too.
BiasedEvery(q, i) == VAdd(q[i + 1], PoleBias)

\* The pole constraint applies to intermediate joints only.
Biased(q, i) == IF i < numJoints THEN VAdd(q[i + 1], PoleBias) ELSE q[i + 1]

RECURSIVE ForwardFrom(_, _)
ForwardFrom(q, i) ==
    IF i > numJoints THEN q
    ELSE LET dir == Normalize(VSub(Biased(q, i), q[i]))
             qn  == VAdd(q[i], MultiplyScalar(dir, segmentLength))
         IN  ForwardFrom([q EXCEPT ![i + 1] = qn], i + 1)

\* Faulty variant of ForwardReaching: the base point is left where the
\* backward pass put it.
ForwardReachingNoReset(q, base) == ForwardFrom(q, 1)

\* Forward reaching: the base is reset, then every point from the first
\* joint up to the end effector is biased and re-projected.
ForwardReaching(q, base) == ForwardFrom([q EXCEPT ![1] = base], 1)

\* solveIK step 2, joints 1..i: joint i is turned so that its +Z points
\* from its own world position to the buffer point q[i+1], in the frame of
\* its already updated parent.
RECURSIVE ApplyRotations(_, _, _, _)
ApplyRotations(name, js, q, i) ==
    IF i = 0 THEN js
    ELSE LET done       == ApplyRotations(name, js, q, i - 1)
             currentPos == WorldPos(name, done, i)
             worldDir   == Normalize(VSub(q[i + 1], currentPos))
             parentQuat == WorldQuat(done, i - 1)
             localDir   == ApplyQuaternion(Invert(parentQuat), worldDir)
         IN  [done EXCEPT ![i] = SetFromUnitVectorsZ(localDir)]

\* ------------------------------------------------------------- pose data
\* Rotations as the backend sends them: 3x3 arrays r[row][col] of numbers.
IdentityArray == << << 1, 0, 0 >>, << 0, 1, 0 >>, << 0, 0, 1 >> >>

QuarterTurnZArray == << << 0, -1, 0 >>, << 1, 0, 0 >>, << 0, 0, 1 >> >>

\* One pose entry of /api/poses.
PoseEntry(cx, cy, cz, crot, lx, ly, lz, lrot) ==
    [camera |-> [position |-> << cx, cy, cz >>, rotation |-> crot],
     light  |-> [position |-> << lx, ly, lz >>, rotation |-> lrot]]

\* The pose sequence delivered by the backend (millimetres, world frame).
\* The camera base joint is at (0, -500, 40); maximal reach is 750.
PoseData ==
    << PoseEntry(0, -500, 790, IdentityArray, 0, 500, 500, IdentityArray),
       PoseEntry(375, -500, 40, QuarterTurnZArray, 100, 400, 300, NULL),
       PoseEntry(0, -500, 840, NULL, 0, 500, 500, QuarterTurnZArray),
       PoseEntry(0, -500, 540, IdentityArray, -100, 500, 400, IdentityArray),
       PoseEntry(-10000, -500, 40, NULL, 0, 500, 10000, NULL),
       PoseEntry(-500, -500, 40, IdentityArray, 0, 300, 300, IdentityArray) >>

\* frameIndex values a caller of updateFrame passes: every index of the
\* pose sequence, one past its end and one before its start.
FrameIndexes == (0 - 1)..Len(PoseData)

\* worldToScene: the scene uses the world frame.
worldToScene(v) == Mm(v[1], v[2], v[3])

\* Faulty variant of CamTargetPos: the camera chain is aimed at the light
\* entry of the pose.
CamTargetPosFromLight(pose) == worldToScene(pose.light.position)

\* updateFrame: the camera chain's target position is the camera entry.
CamTargetPos(pose) == worldToScene(pose.camera.position)

\* updateFrame: camTargetRot is pose.camera.rotation, or null without one.
CamTargetRot(pose) == pose.camera.rotation

\* attachToolsToIKChains: lightInitialTarget.
lightInitialTarget == Mm(0, 500, 500)

\* ------------------------------------------------------ end effector
\* Matrix4.set(targetRot...) and Quaternion.setFromRotationMatrix.
SetFromRotationMatrix(r) ==
    [i \in 1..3 |-> [j \in 1..3 |-> r[i][j] * RotOne]]

\* setFromAxisAngle((0,1,0), PI) for the camera model, and
\* setFromAxisAngle((1,0,0), PI/2) for any other chain.
MountAdjust(name) ==
    IF name = "camera"
    THEN << << -RotOne, 0, 0 >>, << 0, RotOne, 0 >>, << 0, 0, -RotOne >> >>
    ELSE << << RotOne, 0, 0 >>, << 0, 0, -RotOne >>, << 0, RotOne, 0 >> >>

\* Faulty variant of EndEffectorLocalQuat: the world rotation is stored as
\* the local one, the parent's rotation is not taken out.
EndEffectorLocalQuatNoParent(name, parentQuat, rot) ==
    MatMul(SetFromRotationMatrix(rot), MountAdjust(name))

\* Faulty variant of EndEffectorLocalQuat: the mount adjustment is applied
\* before the target rotation, not after it.
EndEffectorLocalQuatAdjustFirst(name, parentQuat, rot) ==
    MatMul(Invert(parentQuat),
           MatMul(MountAdjust(name), SetFromRotationMatrix(rot)))

\* updateIKChain step 3: localQuat = parentQuat^-1 * (targetQuat * adjust).
EndEffectorLocalQuat(name, parentQuat, rot) ==
    MatMul(Invert(parentQuat),
           MatMul(SetFromRotationMatrix(rot), MountAdjust(name)))

\* ---------------------------------------------------------------- hand
\* updateHandPosition: the keyframed target, in thirds of a millimetre
\* (t = (frameIndex - 30) / 30, so 3 * 100 * t = 10 * (frameIndex - 30)).
HandTarget(frameIndex) ==
    IF frameIndex < 30 THEN << 200 * 3, 0, 0 >>
    ELSE IF frameIndex < 60
    THEN << 200 * 3 + 10 * (frameIndex - 30), -100 * 3, 0 >>
    ELSE << 300 * 3, -100 * 3, 5 * (frameIndex - 60) >>

\* createHand: handGroup.position.set(200, -100, 0).
InitialHand == << 200 * 3, -100 * 3, 0 >>

\* --------------------------------------------------------- playback page
\* The page's times and rates are kept as exact fractions << num, den >>
\* in lowest terms (den > 0): milliseconds for times, seconds for the
\* video, frames per second for targetFPS.
RECURSIVE GCD(_, _)
GCD(a, b) == IF b = 0 THEN a ELSE GCD(b, a % b)

Frac(n, d) ==
    LET g == GCD(Abs(n), d)
    IN  IF g = 0 THEN << n, d >> ELSE << n \div g, d \div g >>

Whole(n) == << n, 1 >>

FracAdd(a, b) == Frac(a[1] * b[2] + b[1] * a[2], a[2] * b[2])

FracSub(a, b) == Frac(a[1] * b[2] - b[1] * a[2], a[2] * b[2])

FracMul(a, b) == Frac(a[1] * b[1], a[2] * b[2])

\* a / b for b > 0.
FracDiv(a, b) == Frac(a[1] * b[2], a[2] * b[1])

\* a > b
FracGreater(a, b) == a[1] * b[2] > b[1] * a[2]

\* a % b for a >= 0, b > 0.
FracMod(a, b) ==
    LET q == (a[1] * b[2]) \div (a[2] * b[1])
    IN  FracSub(a, FracMul(Whole(q), b))

\* window.totalPlaybackTime
totalPlaybackTime == 30

\* window.warningConfig as shipped.
warningConfig ==
    [text |-> "AprilTag is near the corner, keep it within the camera view!",
     startFrame |-> 38,
     endFrame |-> 29]

\* window.warningConfig is the page's setting, to be edited in place: the
\* shipped one, one with a proper range, one without a text.
WarningConfigs ==
    {warningConfig,
     [text |-> "Keep the tag in view!", startFrame |-> 3, endFrame |-> 5],
     [text |-> "", startFrame |-> 1, endFrame |-> 60]}

\* Content an element has from the page's markup, before any handler
\* wrote it.
Markup == "(markup)"

\* A number an element has from the page's markup: it stands apart from
\* every number the scripts write.
MarkupNumber == 0 - 1

\* Largest image list the backend delivers in the exploration.
MaxImages == 60

\* Lengths of the image list /api/images may deliver.
ImageCounts == {0, 7, MaxImages}

\* secondaryVideo.duration values, in seconds.
VideoDurations == {0, 45}

\* The image list: file names stand for their position.
ImageList(n) == [i \in 1..n |-> i]

\* The listener's variables and the elements' content when the listener
\* has been installed.  ready: secondaryVideo.readyState >= 1 at that time
\* (the metadata event has fired before), with duration d.  hasScrubber
\* tells the two page scripts apart: FALSE for the one with the warning
\* line, TRUE for the one with the scrubber, the frame counter and the
\* fps counter.  userActed is history: a click or a scrubber input has
\* been handled.
InitialApp(ready, d, config) ==
    [hasScrubber         |-> FALSE,
     userActed           |-> FALSE,
     scrubberMax         |-> MarkupNumber,
     scrubberValue       |-> MarkupNumber,
     frameCounter        |-> NULL,
     fpsCounter          |-> MarkupNumber,
     warningConfig       |-> config,
     images              |-> << >>,
     currentIndex        |-> 0,
     isPlaying           |-> FALSE,
     animationId         |-> 0,
     lastFrameAge        |-> Whole(0),
     targetFPS           |-> Whole(1),
     frameInterval       |-> FracDiv(Whole(1000), Whole(1)),
     videoDuration       |-> IF ready THEN d ELSE 0,
     imagesLoaded        |-> FALSE,
     videoMetadataLoaded |-> ready,
     statusFrame         |-> 0,
     warningLine         |-> Markup,
     systemStatus        |-> Markup,
     playbackRate        |-> Whole(1),
     videoPaused         |-> TRUE,
     videoSeek           |-> NULL,
     imageFetch          |-> "pending",
     metadataEvent       |-> IF ready THEN "fired" ELSE "pending",
     pending             |-> {}]

\* Faulty variant of isInWarningRange: the end of the range is not tested.
isInWarningRangeNoEnd(config, frameNumber) ==
    IF config.text = "" THEN FALSE
    ELSE frameNumber >= config.startFrame

\* isInWarningRange(frameNumber), for config = window.warningConfig.
isInWarningRange(config, frameNumber) ==
    IF config.text = "" THEN FALSE
    ELSE /\ frameNumber >= config.startFrame
         /\ frameNumber <= config.endFrame

\* updateWarningDisplay(frameNumber)
updateWarningDisplay(s, frameNumber) ==
    IF isInWarningRange(s.warningConfig, frameNumber)
    THEN [s EXCEPT !.warningLine = s.warningConfig.text,
                   !.systemStatus = "Warning"]
    ELSE [s EXCEPT !.warningLine = "", !.systemStatus = "Ready"]

\* syncSecondaryVideo(); drift: secondaryVideo.currentTime, which the
\* video element advances on its own, is more than 0.5 s from targetTime.
\* With one image progress is 0/0, NaN, and no comparison with it holds.
syncSecondaryVideo(s, drift) ==
    IF s.videoDuration > 0 /\ Len(s.images) > 1 /\ drift
    THEN [s EXCEPT !.videoSeek =
              FracMul(Frac(s.currentIndex, Len(s.images) - 1),
                      Whole(s.videoDuration))]
    ELSE s

\* updateDisplay(index), but for its call of scene3d.updateFrame: the
\* script with the warning line, and the script with the scrubber.
updateDisplay(s, index, drift) ==
    IF Len(s.images) = 0 THEN s
    ELSE IF s.hasScrubber
    THEN syncSecondaryVideo(
             [s EXCEPT !.currentIndex = index,
                       !.scrubberValue = index,
                       !.frameCounter = << index + 1, Len(s.images) >>,
                       !.statusFrame = index + 1],
             drift)
    ELSE syncSecondaryVideo(
             updateWarningDisplay(
                 [s EXCEPT !.currentIndex = index, !.statusFrame = index + 1],
                 index + 1),
             drift)

\* Faulty variant of calculateFPS: the images are timed to the video's
\* duration and the video plays at its own rate.
calculateFPSFromVideo(s) ==
    IF Len(s.images) > 0 /\ s.videoDuration > 0
    THEN [s EXCEPT !.targetFPS = Frac(Len(s.images), s.videoDuration),
                   !.frameInterval =
                       FracDiv(Whole(1000),
                               Frac(Len(s.images), s.videoDuration)),
                   !.playbackRate = Whole(1)]
    ELSE s

\* calculateFPS(): the script with the scrubber times the images to the
\* video's duration, the other one times both to totalPlaybackTime.
calculateFPS(s) ==
    LET totalTime == IF totalPlaybackTime = 0 THEN 30 ELSE totalPlaybackTime
        fps       == Frac(Len(s.images), totalTime)
        videoFps  == Frac(Len(s.images), s.videoDuration)
    IN  IF s.hasScrubber
        THEN IF Len(s.images) > 0 /\ s.videoDuration > 0
             THEN [s EXCEPT !.targetFPS = videoFps,
                            !.frameInterval = FracDiv(Whole(1000), videoFps),
                            !.playbackRate = Whole(1)]
             ELSE s
        ELSE IF Len(s.images) > 0
        THEN [s EXCEPT !.targetFPS = fps,
                       !.frameInterval = FracDiv(Whole(1000), fps),
                       !.playbackRate = IF s.videoDuration > 0
                                        THEN Frac(s.videoDuration, totalTime)
                                        ELSE @]
        ELSE s

\* requestAnimationFrame's return value: an id no pending callback has.
FreshId(ids) ==
    CHOOSE k \in 1..(Cardinality(ids) + 1) :
        k \notin ids /\ \A j \in 1..(k - 1) : j \in ids

\* loop() as startPlayback calls it, without a timestamp: elapsed is NaN
\* and no comparison with it holds, so only the next callback is requested.
loopUntimed(s) ==
    IF ~s.isPlaying THEN s
    ELSE [s EXCEPT !.animationId = FreshId(s.pending),
                   !.pending = @ \cup {FreshId(s.pending)}]

\* startPlayback(); allowed: secondaryVideo.play() is not rejected.
startPlayback(s, allowed) ==
    IF s.isPlaying THEN s
    ELSE loopUntimed([s EXCEPT !.isPlaying = TRUE,
                               !.lastFrameAge = Whole(0),
                               !.videoPaused = IF allowed THEN FALSE ELSE @])

\* Faulty variant of pausePlayback: the pending callback is not
\* cancelled.
pausePlaybackNoCancel(s) ==
    [s EXCEPT !.isPlaying = FALSE,
              !.videoPaused = TRUE]

\* pausePlayback()
pausePlayback(s) ==
    [s EXCEPT !.isPlaying = FALSE,
              !.pending = IF s.animationId # 0 THEN @ \ {s.animationId} ELSE @,
              !.videoPaused = TRUE]

\* Faulty variant of tryStartPlayback: the rates are set, playback is
\* left to the button.
tryStartPlaybackRatesOnly(s, allowed) ==
    IF s.imagesLoaded /\ s.videoMetadataLoaded
    THEN calculateFPS(s)
    ELSE s

\* tryStartPlayback()
tryStartPlayback(s, allowed) ==
    IF s.imagesLoaded /\ s.videoMetadataLoaded
    THEN startPlayback(calculateFPS(s), allowed)
    ELSE s

\* Math.round of a positive fraction.
Round(a) == (2 * a[1] + a[2]) \div (2 * a[2])

\* Faulty variant of loop: the index is not wrapped at the end of the
\* image list.
loopNoWrap(s, delay, drift) ==
    LET elapsed   == FracAdd(s.lastFrameAge, delay)
        requested == [s EXCEPT !.animationId = FreshId(s.pending),
                               !.pending = @ \cup {FreshId(s.pending)}]
    IN  IF ~s.isPlaying THEN s
        ELSE IF FracGreater(elapsed, s.frameInterval)
        THEN updateDisplay(
                 [requested EXCEPT
                     !.lastFrameAge = FracMod(elapsed, s.frameInterval),
                     !.fpsCounter = IF s.hasScrubber
                                    THEN Round(FracDiv(Whole(1000), elapsed))
                                    ELSE @],
                 s.currentIndex + 1,
                 drift)
        ELSE [requested EXCEPT !.lastFrameAge = elapsed]

\* Faulty variant of loop: the callback does not test isPlaying.
loopWhilePaused(s, delay, drift) ==
    LET elapsed   == FracAdd(s.lastFrameAge, delay)
        requested == [s EXCEPT !.animationId = FreshId(s.pending),
                               !.pending = @ \cup {FreshId(s.pending)}]
        wraps     == s.currentIndex + 1 >= Len(s.images)
        nextIndex == IF wraps THEN 0 ELSE s.currentIndex + 1
    IN  IF FracGreater(elapsed, s.frameInterval)
        THEN updateDisplay(
                 [requested EXCEPT
                     !.lastFrameAge = FracMod(elapsed, s.frameInterval),
                     !.fpsCounter = IF s.hasScrubber
                                    THEN Round(FracDiv(Whole(1000), elapsed))
                                    ELSE @,
                     !.videoSeek = IF wraps THEN Whole(0) ELSE @],
                 nextIndex,
                 drift /\ ~wraps)
        ELSE [requested EXCEPT !.lastFrameAge = elapsed]

\* loop(currentTime) as an animation-frame callback, delay milliseconds
\* after the previous one (or after startPlayback).  The script with the
\* scrubber also shows the rounded rate of the due callbacks.
loop(s, delay, drift) ==
    LET elapsed   == FracAdd(s.lastFrameAge, delay)
        requested == [s EXCEPT !.animationId = FreshId(s.pending),
                               !.pending = @ \cup {FreshId(s.pending)}]
        wraps     == s.currentIndex + 1 >= Len(s.images)
        nextIndex == IF wraps THEN 0 ELSE s.currentIndex + 1
    IN  IF ~s.isPlaying THEN s
        ELSE IF FracGreater(elapsed, s.frameInterval)
        THEN updateDisplay(
                 [requested EXCEPT
                     !.lastFrameAge = FracMod(elapsed, s.frameInterval),
                     !.fpsCounter = IF s.hasScrubber
                                    THEN Round(FracDiv(Whole(1000), elapsed))
                                    ELSE @,
                     !.videoSeek = IF wraps THEN Whole(0) ELSE @],
                 nextIndex,
                 drift /\ ~wraps)
        ELSE [requested EXCEPT !.lastFrameAge = elapsed]

\* loop(currentTime) reaches its call of updateDisplay.
LoopIsDue(s, delay) ==
    /\ s.isPlaying
    /\ FracGreater(FracAdd(s.lastFrameAge, delay), s.frameInterval)

\* Delays of an animation-frame callback the exploration takes: half a
\* frame interval, a whole one, one and a half.
DelayHalves == 1..3

DelayOf(s, k) == FracMul(Frac(k, 2), s.frameInterval)

\* ---------------------------------------------------------------- state
\* Faulty variant of LoopContinues: one iteration too many.
LoopContinuesInclusive(i) == i <= iterationCount

\* for (let iter = 0; iter < iterationCount; iter++)
LoopContinues(i) == i < iterationCount

\* No shadow solve is run.
TwinOff == [on |-> FALSE, delta |-> Zero3, p |-> << >>, joints |-> << >>]

\* The shadow of a solveIK call on chain name: its buffer is read from the
\* same rotations, its target is the call's target moved by delta.
TwinOf(name, delta) ==
    IF delta = Zero3 THEN TwinOff
    ELSE [on |-> TRUE, delta |-> delta,
          p |-> ExtractPositions(name, joints[name]), joints |-> << >>]

\* Target displacements of the shadow solve: 1 mm along an axis.
Deltas == {<< Scale, 0, 0 >>, << 0, Scale, 0 >>, << 0, 0, -Scale >>}

\* The scene after createDynamicArms built both chains, with the
\* constructor about to pose the light arm (attachToolsToIKChains).
SceneInit ==
    /\ joints = [c \in ChainNames |-> InitialJoints]
    /\ eeQuat = [c \in ChainNames |-> Identity3]
    /\ poses = NULL
    /\ currentFrame = 0
    /\ hand = InitialHand
    /\ pc = "construct"
    /\ ctx = "construct"
    /\ cur = "light"
    /\ targetPos = lightInitialTarget
    /\ targetRot = NULL
    /\ p = ExtractPositions("light", InitialJoints)
    /\ iter = 0
    /\ solveLog = [c \in ChainNames |-> << >>]
    /\ solves = 0
    /\ twin = TwinOff

\* The state after construction: the scene as above, the page's listener
\* installed with the video's metadata not yet loaded.
Init ==
    /\ SceneInit
    /\ app = InitialApp(FALSE, 0, warningConfig)

\* Faulty variant of EnterUpdateIKChain: the solve starts from the chain's
\* rest pose, not from the rotations the last solve stored.
EnterUpdateIKChainFromRest(name, pos, rot, log) ==
    /\ cur' = name
    /\ targetPos' = pos
    /\ targetRot' = rot
    /\ p' = ExtractPositions(name, InitialJoints)
    /\ iter' = 0
    /\ solveLog' = [log EXCEPT ![name] = Append(@, pos)]
    /\ pc' = IF LoopContinues(0) THEN "backward" ELSE "orient"

\* updateIKChain(name, pos, rot) up to the start of the FABRIK loop of
\* solveIK: the buffer is read from the chain's present rotations.
EnterUpdateIKChain(name, pos, rot, log) ==
    /\ cur' = name
    /\ targetPos' = pos
    /\ targetRot' = rot
    /\ p' = ExtractPositions(name, joints[name])
    /\ iter' = 0
    /\ solveLog' = [log EXCEPT ![name] = Append(@, pos)]
    /\ pc' = IF LoopContinues(0) THEN "backward" ELSE "orient"

\* attachToolsToIKChains: updateIKChain('light', lightInitialTarget, null).
AttachToolsToIKChains ==
    /\ pc = "construct"
    /\ EnterUpdateIKChain("light", lightInitialTarget, NULL, solveLog)
    /\ ctx' = "construct"
    /\ twin' = TwinOff
    /\ UNCHANGED << joints, eeQuat, poses, currentFrame, hand, solves, app >>

\* setPoses, when the fetch of /api/poses resolves.
SetPoses ==
    /\ pc = "idle"
    /\ poses = NULL
    /\ poses' = PoseData
    /\ UNCHANGED << joints, eeQuat, currentFrame, hand, pc, ctx, cur,
                    targetPos, targetRot, p, iter, solveLog, solves, app,
                    twin >>

\* updateFrame(frameIndex) up to the start of the camera chain's FABRIK
\* loop; without poses or past their end it returns at once.  A negative
\* frameIndex passes that guard: this.currentFrame is assigned, then
\* poses[frameIndex] is undefined and reading pose.camera throws.  delta:
\* the displacement of the shadow solve's target, zero for no shadow.
UpdateFrameCall(frameIndex, delta) ==
    IF poses = NULL \/ frameIndex >= Len(poses)
    THEN UNCHANGED sceneVars
    ELSE IF frameIndex < 0
    THEN /\ currentFrame' = frameIndex
         /\ ctx' = "thrown"
         /\ UNCHANGED << joints, eeQuat, poses, hand, pc, cur, targetPos,
                         targetRot, p, iter, solveLog, solves, twin >>
    ELSE /\ solves < MaxSolves
         /\ solves' = solves + 1
         /\ currentFrame' = frameIndex
         /\ EnterUpdateIKChain("camera",
                               CamTargetPos(poses[frameIndex + 1]),
                               CamTargetRot(poses[frameIndex + 1]),
                               [c \in ChainNames |-> << >>])
         /\ ctx' = "frame"
         /\ twin' = TwinOf("camera", delta)
         /\ UNCHANGED << joints, eeQuat, poses, hand >>

\* updateFrame(frameIndex), called on the idle scene.
UpdateFrame(frameIndex, delta) ==
    /\ pc = "idle"
    /\ UpdateFrameCall(frameIndex, delta)
    /\ UNCHANGED app

\* Chain names a caller of updateIKChain passes: the two chains of
\* ikChains and a name that is no key of it.
CallNames == ChainNames \cup {"gripper"}

\* Target positions a direct caller of updateIKChain passes.
CallTargets == {lightInitialTarget, Mm(300, -200, 400)}

\* Target rotations a direct caller passes: none, or a rotation array.
CallRots == {NULL, QuarterTurnZArray}

\* updateIKChain(name, pos, rot) called on the idle scene, up to the start
\* of the FABRIK loop: for a name that is no key of ikChains it returns at
\* once.
UpdateIKChain(name, pos, rot) ==
    /\ pc = "idle"
    /\ IF name \notin ChainNames
       THEN UNCHANGED vars
       ELSE /\ solves < MaxSolves
            /\ solves' = solves + 1
            /\ EnterUpdateIKChain(name, pos, rot, solveLog)
            /\ ctx' = "construct"
            /\ twin' = TwinOff
            /\ UNCHANGED << joints, eeQuat, poses, currentFrame, hand, app >>

\* solveIK: the backward half of one FABRIK iteration.
BackwardPass ==
    /\ pc = "backward"
    /\ p' = BackwardReaching(p, targetPos)
    /\ twin' = IF twin.on
               THEN [twin EXCEPT
                       !.p = BackwardReaching(@, VAdd(targetPos, twin.delta))]
               ELSE twin
    /\ pc' = "forward"
    /\ UNCHANGED << joints, eeQuat, poses, currentFrame, hand, ctx, cur,
                    targetPos, targetRot, iter, solveLog, solves, app >>

\* solveIK: the forward half of one FABRIK iteration, and iter++.
ForwardPass ==
    /\ pc = "forward"
    /\ p' = ForwardReaching(p, BaseJointWorldPos(cur))
    /\ twin' = IF twin.on
               THEN [twin EXCEPT
                       !.p = ForwardReaching(@, BaseJointWorldPos(cur))]
               ELSE twin
    /\ iter' = iter + 1
    /\ pc' = IF LoopContinues(iter + 1) THEN "backward" ELSE "orient"
    /\ UNCHANGED << joints, eeQuat, poses, currentFrame, hand, ctx, cur,
                    targetPos, targetRot, solveLog, solves, app >>

\* Faulty variant of OrientJoints: both chains share one segments array,
\* so the rotations are written to every chain.
OrientJointsShared ==
    /\ pc = "orient"
    /\ joints' = [c \in ChainNames |->
                    ApplyRotations(cur, joints[cur], p, numJoints)]
    /\ twin' = IF twin.on
               THEN [twin EXCEPT
                       !.joints = ApplyRotations(cur, joints[cur], twin.p,
                                                 numJoints)]
               ELSE twin
    /\ pc' = "ee"
    /\ UNCHANGED << eeQuat, poses, currentFrame, hand, ctx, cur, targetPos,
                    targetRot, p, iter, solveLog, solves, app >>

\* solveIK step 2: the buffer is written back as joint rotations.
OrientJoints ==
    /\ pc = "orient"
    /\ joints' = [joints EXCEPT
                    ![cur] = ApplyRotations(cur, joints[cur], p, numJoints)]
    /\ twin' = IF twin.on
               THEN [twin EXCEPT
                       !.joints = ApplyRotations(cur, joints[cur], twin.p,
                                                 numJoints)]
               ELSE twin
    /\ pc' = "ee"
    /\ UNCHANGED << eeQuat, poses, currentFrame, hand, ctx, cur, targetPos,
                    targetRot, p, iter, solveLog, solves, app >>

\* Faulty variant of OrientEndEffector: without a targetRot the end
\* effector's local rotation is reset to the identity.
OrientEndEffectorResetOnNull ==
    /\ pc = "ee"
    /\ eeQuat' = [eeQuat EXCEPT
                    ![cur] = IF targetRot = NULL THEN Identity3
                             ELSE EndEffectorLocalQuat(
                                      cur,
                                      WorldQuat(joints[cur], numJoints),
                                      targetRot)]
    /\ pc' = IF ctx = "frame" THEN "hand" ELSE "idle"
    /\ twin' = TwinOff
    /\ UNCHANGED << joints, poses, currentFrame, hand, ctx, cur, targetPos,
                    targetRot, p, iter, solveLog, solves, app >>

\* updateIKChain step 3: with a targetRot the end effector is oriented;
\* then the call returns to its caller.
OrientEndEffector ==
    /\ pc = "ee"
    /\ eeQuat' = IF targetRot = NULL THEN eeQuat
                 ELSE [eeQuat EXCEPT
                         ![cur] = EndEffectorLocalQuat(
                                      cur,
                                      WorldQuat(joints[cur], numJoints),
                                      targetRot)]
    /\ pc' = IF ctx = "frame" THEN "hand" ELSE "idle"
    /\ twin' = TwinOff
    /\ UNCHANGED << joints, poses, currentFrame, hand, ctx, cur, targetPos,
                    targetRot, p, iter, solveLog, solves, app >>

\* updateFrame's last statement: updateHandPosition(frameIndex).
UpdateHandPosition ==
    /\ pc = "hand"
    /\ hand' = HandTarget(currentFrame)
    /\ pc' = "idle"
    /\ UNCHANGED << joints, eeQuat, poses, currentFrame, ctx, cur,
                    targetPos, targetRot, p, iter, solveLog, solves, app,
                    twin >>

\* --------------------------------------------------- playback handlers
\* A handler of the page runs to its end before another one starts.  The
\* statements of a handler that follow its call of updateDisplay read
\* nothing updateFrame writes: they are taken in the handler's first step,
\* and the solver's steps of updateFrame follow with the page unchanged.

\* The 'loadedmetadata' listener of secondaryVideo.
LoadedMetadata(d, allowed) ==
    /\ pc = "idle"
    /\ app.metadataEvent = "pending"
    /\ app' = tryStartPlayback([app EXCEPT !.videoDuration = d,
                                           !.videoMetadataLoaded = TRUE,
                                           !.metadataEvent = "fired",
                                           !.videoSeek = NULL],
                               allowed)
    /\ UNCHANGED sceneVars

\* fetch('/api/images') resolves with a list of n images.
ImagesFetched(n, drift, allowed) ==
    /\ pc = "idle"
    /\ app.imageFetch = "pending"
    /\ LET got == [app EXCEPT !.images = ImageList(n),
                              !.imageFetch = "done",
                              !.scrubberMax = IF app.hasScrubber /\ n > 0
                                              THEN n - 1 ELSE @,
                              !.videoSeek = NULL]
       IN  IF n > 0
           THEN /\ app' = tryStartPlayback(
                              [updateDisplay(got, 0, drift)
                                   EXCEPT !.imagesLoaded = TRUE],
                              allowed)
                /\ UpdateFrameCall(0, Zero3)
           ELSE /\ app' = got
                /\ UNCHANGED sceneVars

\* fetch('/api/images') fails: the catch handler logs the error.
ImagesFetchFailed ==
    /\ pc = "idle"
    /\ app.imageFetch = "pending"
    /\ app' = [app EXCEPT !.imageFetch = "done"]
    /\ UNCHANGED sceneVars

\* The click listener of playPauseBtn.
ClickPlayPause(allowed) ==
    /\ pc = "idle"
    /\ LET s == [app EXCEPT !.videoSeek = NULL, !.userActed = TRUE]
       IN  app' = IF app.isPlaying
                  THEN pausePlayback(s)
                  ELSE startPlayback(s, allowed)
    /\ UNCHANGED sceneVars

\* Values the range input can hand to its 'input' listener: from 0 to its
\* max, which the fetch handler sets to images.length - 1.
ScrubValues(s) ==
    IF Len(s.images) = 0 THEN {0, 3}
    ELSE {v \in {0, 3, s.scrubberMax} : v <= s.scrubberMax}

\* The 'input' listener of the scrubber: pausePlayback(), then
\* updateDisplay(parseInt(e.target.value)).
ScrubberInput(v, drift) ==
    /\ pc = "idle"
    /\ app.hasScrubber
    /\ v \in ScrubValues(app)
    /\ app' = updateDisplay(
                  pausePlayback([app EXCEPT !.videoSeek = NULL,
                                            !.userActed = TRUE]),
                  v, drift)
    /\ IF Len(app.images) > 0
       THEN UpdateFrameCall(v, Zero3)
       ELSE UNCHANGED sceneVars

\* The browser runs the pending animation-frame callback id, k half frame
\* intervals after the previous callback.
AnimationFrame(id, k, drift) ==
    /\ pc = "idle"
    /\ id \in app.pending
    /\ LET s == [app EXCEPT !.pending = @ \ {id}, !.videoSeek = NULL]
           d == DelayOf(app, k)
       IN  /\ app' = loop(s, d, drift)
           /\ IF LoopIsDue(s, d) /\ Len(s.images) > 0
              THEN UpdateFrameCall(app'.currentIndex, Zero3)
              ELSE UNCHANGED sceneVars

Next ==
    \/ AttachToolsToIKChains
    \/ SetPoses
    \/ \E frameIndex \in FrameIndexes, delta \in Deltas :
           UpdateFrame(frameIndex, delta)
    \/ \E name \in CallNames, pos \in CallTargets, rot \in CallRots :
           UpdateIKChain(name, pos, rot)
    \/ BackwardPass
    \/ ForwardPass
    \/ OrientJoints
    \/ OrientEndEffector
    \/ UpdateHandPosition

Spec == Init /\ [][Next]_vars

\* The page and the scene together: the listener may find the video's
\* metadata loaded already.
PlaybackInit ==
    /\ SceneInit
    /\ \E config \in WarningConfigs :
           app \in {InitialApp(FALSE, 0, config)}
                     \cup {InitialApp(TRUE, d, config) : d \in VideoDurations}

PlaybackNext ==
    \/ AttachToolsToIKChains
    \/ SetPoses
    \/ BackwardPass
    \/ ForwardPass
    \/ OrientJoints
    \/ OrientEndEffector
    \/ UpdateHandPosition
    \/ \E d \in VideoDurations, allowed \in BOOLEAN :
           LoadedMetadata(d, allowed)
    \/ \E n \in ImageCounts, drift \in BOOLEAN, allowed \in BOOLEAN :
           ImagesFetched(n, drift, allowed)
    \/ ImagesFetchFailed
    \/ \E allowed \in BOOLEAN : ClickPlayPause(allowed)
    \/ \E id \in app.pending, k \in DelayHalves, drift \in BOOLEAN :
           AnimationFrame(id, k, drift)

PlaybackSpec == PlaybackInit /\ [][PlaybackNext]_vars

\* The page of the script with the scrubber, and the scene.
ScrubberInit ==
    /\ SceneInit
    /\ app \in {[InitialApp(FALSE, 0, warningConfig)
                     EXCEPT !.hasScrubber = TRUE]}
                 \cup {[InitialApp(TRUE, d, warningConfig)
                            EXCEPT !.hasScrubber = TRUE] : d \in VideoDurations}

\* Largest image list delivered to the two page scripts side by side.
MaxPageImages == 7

\* Lengths of the image list there: none, a single image, several.
PageImageCounts == {0, 1, MaxPageImages}

\* Either page script, with the shipped settings, and the scene.
PagesInit ==
    \/ /\ SceneInit
       /\ app \in {InitialApp(FALSE, 0, warningConfig)}
                    \cup {InitialApp(TRUE, d, warningConfig) :
                              d \in VideoDurations}
    \/ ScrubberInit

PagesNext ==
    \/ AttachToolsToIKChains
    \/ SetPoses
    \/ BackwardPass
    \/ ForwardPass
    \/ OrientJoints
    \/ OrientEndEffector
    \/ UpdateHandPosition
    \/ \E d \in VideoDurations, allowed \in BOOLEAN :
           LoadedMetadata(d, allowed)
    \/ \E n \in PageImageCounts, drift \in BOOLEAN, allowed \in BOOLEAN :
           ImagesFetched(n, drift, allowed)
    \/ ImagesFetchFailed
    \/ \E allowed \in BOOLEAN : ClickPlayPause(allowed)
    \/ \E id \in app.pending, k \in DelayHalves, drift \in BOOLEAN :
           AnimationFrame(id, k, drift)
    \/ \E v \in 0..(MaxPageImages - 1), drift \in BOOLEAN :
           ScrubberInput(v, drift)

PagesSpec == PagesInit /\ [][PagesNext]_vars

\* Last frame of updateHandPosition's keyframe table.
MaxHandFrame == 89

\* Frames updateHandPosition is called with.
HandFrames == 0..MaxHandFrame

\* updateHandPosition(frame) called on the idle scene (this.hand exists
\* from the constructor on).
UpdateHandPositionOf(frame) ==
    /\ pc = "idle"
    /\ hand' = HandTarget(frame)
    /\ UNCHANGED << joints, eeQuat, poses, currentFrame, pc, ctx, cur,
                    targetPos, targetRot, p, iter, solveLog, solves, app,
                    twin >>

\* The scene's construction, the arrival of the poses and calls of
\* updateHandPosition.
HandNext ==
    \/ AttachToolsToIKChains
    \/ BackwardPass
    \/ ForwardPass
    \/ OrientJoints
    \/ OrientEndEffector
    \/ SetPoses
    \/ \E frame \in HandFrames : UpdateHandPositionOf(frame)

HandSpec == Init /\ [][HandNext]_vars

\* ------------------------------------------------------- measurements
\* chain.endEffector.getWorldPosition of a chain as it is stored.
EndEffectorWorldPos(name) == WorldPos(name, joints[name], numJoints + 1)

\* getWorldPosition of joint i of a chain as it is stored.
JointWorldPos(name, i) == WorldPos(name, joints[name], i)

Distance(a, b) == Length(VSub(a, b))

\* Sum of the segment lengths, in steps.
TotalReach == numJoints * segmentLength * Scale

Reachable(name, target) ==
    Distance(BaseJointWorldPos(name), target) <= TotalReach

\* 1e-2 mm is 1.28 steps: the next whole number of steps.
Epsilon == Scale \div 100 + 1

\* Tolerance on a segment length: the rounding of a handful of
\* re-projections (1/16 mm).
LengthTolerance == Scale \div 16

SegmentLengthKept(a, b) ==
    Abs(Distance(a, b) - segmentLength * Scale) <= LengthTolerance

\* The point at distance k segment lengths from the base joint on the ray
\* toward the target.
PointOnRay(name, target, k) ==
    LET step == MultiplyScalar(Normalize(VSub(target, BaseJointWorldPos(name))),
                               segmentLength)
    IN  VAdd(BaseJointWorldPos(name), << k * step[1], k * step[2], k * step[3] >>)

\* solveIK has just returned to updateIKChain.
SolveReturned == pc = "ee"

\* ------------------------------------------------------------------ C1
\* C1: whenever solveIK has returned for a target no farther from the base
\* joint than the sum of the segment lengths, the end effector lies within
\* 1e-2 mm of the target.
C1_ReachableTargetReached ==
    (SolveReturned /\ Reachable(cur, targetPos))
        => Distance(EndEffectorWorldPos(cur), targetPos) <= Epsilon

C3_UnreachableFullyExtended ==
    (SolveReturned /\ ~Reachable(cur, targetPos))
        => /\ \A i \in 1..(numJoints + 1) :
                  Distance(JointWorldPos(cur, i),
                           PointOnRay(cur, targetPos, i - 1)) <= Epsilon
           /\ EndEffectorWorldPos(cur) # targetPos

\* ------------------------------------------------------------------ C4
\* C4: whenever solveIK has returned for the target 750 mm straight above
\* the base joint, every intermediate joint is directly above the base
\* joint and the end effector is within 1e-2 mm of the target.
C4_StraightUpConverges ==
    (SolveReturned
       /\ targetPos = VAdd(BaseJointWorldPos(cur),
                           Mm(0, 0, numJoints * segmentLength)))
        => /\ \A i \in 2..numJoints :
                  /\ Abs(JointWorldPos(cur, i)[1] - BaseJointWorldPos(cur)[1])
                         <= Epsilon
                  /\ Abs(JointWorldPos(cur, i)[2] - BaseJointWorldPos(cur)[2])
                         <= Epsilon
           /\ Distance(EndEffectorWorldPos(cur), targetPos) <= Epsilon

\* ------------------------------------------------------------------ C5
\* C5: in a backward pass whose first direction has zero length (the target
\* is where the last joint's buffer point already is), the re-projected
\* point still ends one segment length from the end-effector point.
C5_ZeroDirectionGuarded ==
    [][(pc = "backward" /\ p[numJoints] = targetPos)
          => SegmentLengthKept(p'[numJoints], p'[numJoints + 1])]_vars

\* ------------------------------------------------------------------ C7
\* C7: after updateIKChain with the identity matrix as targetRot, the end
\* effector's local rotation is the inverse of its parent's world rotation
\* composed with the chain's tool mount adjustment.
C7_IdentityTargetGivesMountInParentFrame ==
    (pc = "hand" /\ targetRot = IdentityArray)
        => eeQuat[cur] = MatMul(Invert(WorldQuat(joints[cur], numJoints)),
                                MountAdjust(cur))

\* The camera chain, bent away from its rest pose, has been oriented with
\* the identity target rotation.
C7_Witness ==
    /\ pc = "hand"
    /\ cur = "camera"
    /\ targetRot = IdentityArray
    /\ WorldQuat(joints[cur], numJoints) # Identity3
    /\ eeQuat[cur] # MountAdjust(cur)

\* ------------------------------------------------------------------ C8
\* C8: no step of a call for one chain changes a joint rotation or the
\* end-effector rotation of the other chain.
C8_OtherChainUntouched ==
    [][\A c \in ChainNames :
          c # cur' => (joints'[c] = joints[c] /\ eeQuat'[c] = eeQuat[c])]_vars

\* The camera chain has been solved and oriented after the light chain was.
C8_Witness ==
    /\ pc = "hand"
    /\ cur = "camera"
    /\ joints["camera"] # InitialJoints
    /\ eeQuat["camera"] # Identity3
    /\ joints["light"] # InitialJoints

\* ------------------------------------------------------------------ C9
\* C9 as claimed: when updateFrame has made its solver calls, each chain
\* was solved exactly once, the camera chain against pose.camera and the
\* light chain against pose.light.
C9_EachChainSolvedOncePerFrame ==
    (ctx = "frame" /\ pc \in {"hand", "idle"})
        => /\ solveLog["camera"]
                = << worldToScene(poses[currentFrame + 1].camera.position) >>
           /\ solveLog["light"]
                = << worldToScene(poses[currentFrame + 1].light.position) >>

\* C9 as amended: when updateFrame has made its solver calls, the camera
\* chain was solved exactly once, against pose.camera (position and
\* rotation) of that frame, and the light chain was not solved.
C9_CameraSolvedOncePerFrame ==
    (ctx = "frame" /\ pc \in {"hand", "idle"})
        => /\ solveLog["camera"]
                = << worldToScene(poses[currentFrame + 1].camera.position) >>
           /\ targetRot = poses[currentFrame + 1].camera.rotation
           /\ cur = "camera"
           /\ solveLog["light"] = << >>

\* updateFrame has solved the camera chain for a frame other than the first.
C9_Witness ==
    /\ pc = "hand"
    /\ ctx = "frame"
    /\ currentFrame > 0
    /\ Len(solveLog["camera"]) = 1

\* ------------------------------------------------------------------ C10
\* Solver steps left before solveIK's loop has ended.
Remaining(at, i) == 2 * (10 - i) - (IF at = "forward" THEN 1 ELSE 0)

\* C10: every solveIK loop starts at iteration 0, runs a backward pass and
\* then a forward pass per iteration, and leaves the loop exactly when 10
\* iterations are done; every pass lowers the number of steps left.
C10_ExactlyTenIterations ==
    [][/\ (pc' = "backward" /\ pc # "forward") => iter' = 0
       /\ pc = "backward" => (iter < 10 /\ iter' = iter /\ pc' = "forward")
       /\ pc = "forward"
            => /\ iter' = iter + 1
               /\ pc' = IF iter' = 10 THEN "orient" ELSE "backward"
       /\ pc \in {"backward", "forward"}
            => /\ Remaining(pc, iter) > 0
               /\ Remaining(pc', iter') < Remaining(pc, iter)
               /\ Remaining(pc', iter') >= 0
       /\ (pc' = "orient" /\ pc # "orient") => pc = "forward"]_vars

\* A solveIK loop of the camera chain has ended.
C10_Witness == pc = "orient" /\ cur = "camera" /\ iter = 10

\* ------------------------------------------------------------------ C11
\* C11: in no state is isPlaying true while imagesLoaded or
\* videoMetadataLoaded is false.
C11_PlaysOnlyWhenLoaded ==
    app.isPlaying => (app.imagesLoaded /\ app.videoMetadataLoaded)

\* ------------------------------------------------------------------ C12
\* C12: once updateDisplay has shown a frame, the warning line holds the
\* config's text and the status is 'Warning' if the shown 1-based frame
\* number lies within [startFrame, endFrame] and the config has a text;
\* if not, the warning line is empty and the status is 'Ready'.
C12_WarningShownExactlyInRange ==
    app.statusFrame # 0
        => IF /\ app.warningConfig.text # ""
              /\ app.warningConfig.startFrame <= app.statusFrame
              /\ app.statusFrame <= app.warningConfig.endFrame
           THEN /\ app.warningLine = app.warningConfig.text
                /\ app.systemStatus = "Warning"
           ELSE /\ app.warningLine = ""
                /\ app.systemStatus = "Ready"

\* Playback has shown a frame inside a proper warning range.
C12_Witness ==
    /\ app.statusFrame = app.currentIndex + 1
    /\ app.warningConfig.text # ""
    /\ app.warningConfig.startFrame < app.statusFrame
    /\ app.statusFrame <= app.warningConfig.endFrame
    /\ app.systemStatus = "Warning"

\* ------------------------------------------------------------------ C13
\* C13: with the shipped warningConfig, once a frame has been shown the
\* status is 'Warning' if its 1-based number is from 30 through 60 and
\* 'Ready' if not.
C13_ShippedWarningFrames30To60 ==
    (app.warningConfig = warningConfig /\ app.statusFrame # 0)
        => app.systemStatus
             = (IF app.statusFrame >= 30 /\ app.statusFrame <= 60
                THEN "Warning" ELSE "Ready")

\* ------------------------------------------------------------------ C14
\* C14: once both loads have happened (calculateFPS has run on a list of
\* n > 0 images), frameInterval times n is totalPlaybackTime * 1000 ms and,
\* for a video duration above 0, playbackRate times totalPlaybackTime is
\* the video's duration.
C14_BothTimedToTotalPlaybackTime ==
    (app.imagesLoaded /\ app.videoMetadataLoaded)
        => /\ Len(app.images) > 0
           /\ app.frameInterval[1] * Len(app.images)
                = totalPlaybackTime * 1000 * app.frameInterval[2]
           /\ app.videoDuration > 0
                => app.playbackRate[1] * totalPlaybackTime
                     = app.videoDuration * app.playbackRate[2]

\* calculateFPS has run for a list whose frame interval is no whole number
\* of milliseconds and a video that has to be sped up.
C14_Witness ==
    /\ app.imagesLoaded
    /\ app.videoMetadataLoaded
    /\ app.frameInterval[2] > 1
    /\ app.videoDuration > totalPlaybackTime
    /\ app.playbackRate # Whole(1)
    /\ app.isPlaying

\* ------------------------------------------------------------------ C15
\* Largest ratio of the end effector's displacement to the target's the
\* claim's proportionality is taken to allow.
ContinuityFactor == 2^5

\* The end effector as the shadow solve leaves it.
TwinEndEffectorWorldPos == WorldPos(cur, twin.joints, numJoints + 1)

\* C15: whenever solveIK has returned, the end effector is no farther
\* from where the same call, from the same joint rotations, leaves it for a
\* target 1 mm away than a fixed multiple of that 1 mm.
C15_Continuous ==
    (SolveReturned /\ twin.on)
        => Distance(EndEffectorWorldPos(cur), TwinEndEffectorWorldPos)
             <= ContinuityFactor * Length(twin.delta)

\* ------------------------------------------------------------------ C16
\* The point q re-projected to one segment length from the point from.
Reprojected(from, q) ==
    VAdd(from, MultiplyScalar(Normalize(VSub(q, from)), segmentLength))

\* C16 as claimed: in every forward pass every point from p[1] to the
\* end-effector point p[N] is moved by the pole offset before it is
\* re-projected to one segment length from its predecessor.
C16_EveryPointNudged ==
    [][pc = "forward"
          => \A i \in 1..numJoints :
                 p'[i + 1] = Reprojected(p'[i], VAdd(p[i + 1], PoleBias))]_vars

\* C16 as amended: in every forward pass every intermediate joint's point
\* p[1] .. p[N-1] is moved by the pole offset (5 mm toward -X) before it is
\* re-projected to one segment length from its predecessor; the
\* end-effector point p[N] is re-projected from where the backward pass
\* left it, without the offset.
C16_IntermediatePointsNudged ==
    [][pc = "forward"
          => /\ \A i \in 1..(numJoints - 1) :
                    p'[i + 1] = Reprojected(p'[i], VAdd(p[i + 1], PoleBias))
             /\ p'[numJoints + 1]
                  = Reprojected(p'[numJoints], p[numJoints + 1])]_vars

\* A forward pass has pushed the joints of the camera chain to the -X side
\* of a target straight above the base joint.
C16_Witness ==
    /\ pc = "backward"
    /\ iter > 0
    /\ cur = "camera"
    /\ targetPos[1] = BaseJointWorldPos(cur)[1]
    /\ \A i \in 2..numJoints : p[i][1] < BaseJointWorldPos(cur)[1]

PositionTolerance == Scale \div 8

\* C18: whenever solveIK has returned, the world position of every joint
\* after the first and of the end effector, computed from the stored
\* rotations, is the buffer point the solver left for it.
C18_StoredPoseEqualsBuffer ==
    SolveReturned
        => \A i \in 1..numJoints :
               Distance(JointWorldPos(cur, i + 1), p[i + 1])
                   <= PositionTolerance

\* ------------------------------------------------------------------ C19
\* C19: a chain's joint rotations change in the orientation step of its
\* own solveIK call and nowhere else, and every solveIK call reads its
\* buffer from the rotations the chain has stored.
C19_SeedIsLastSolution ==
    [][/\ \A c \in ChainNames :
              joints'[c] # joints[c] => (pc = "orient" /\ c = cur)
       /\ (pc \in {"idle", "construct"} /\ pc' \notin {"idle", "construct"})
              => p' = ExtractPositions(cur', joints[cur'])]_vars

\* A second solve of the camera chain starts from what the first stored.
C19_Witness ==
    /\ pc = "backward"
    /\ iter = 0
    /\ cur = "camera"
    /\ solves > 1
    /\ joints[cur] # InitialJoints
    /\ p # ExtractPositions(cur, InitialJoints)

\* ------------------------------------------------------------------ C20
\* Largest difference of two rotation-matrix entries that counts as
\* rounding.
RotationTolerance == RotOne \div 2^9

RotationsAgree(a, b) ==
    \A i \in 1..3 : \A j \in 1..3 : Abs(a[i][j] - b[i][j]) <= RotationTolerance

\* getWorldQuaternion of the end effector of a chain as it is stored.
EndEffectorWorldQuat(name) ==
    MatMul(WorldQuat(joints[name], numJoints), eeQuat[name])

C21_NullRotKeepsOrientation ==
    [][/\ (pc = "ee" /\ targetRot = NULL)
            => /\ iter = iterationCount
               /\ solveLog[cur][Len(solveLog[cur])] = targetPos
               /\ eeQuat' = eeQuat
       /\ \A name \in CallNames \ ChainNames, pos \in CallTargets,
             rot \in CallRots :
              UpdateIKChain(name, pos, rot) => UNCHANGED vars]_vars

\* A chain whose end effector was oriented before has been solved again
\* without a targetRot, and its joints were moved.
C21_Witness ==
    /\ pc \in {"hand", "idle"}
    /\ targetRot = NULL
    /\ eeQuat[cur] # Identity3
    /\ iter = iterationCount
    /\ joints[cur] # InitialJoints

\* ----------------------------------------------------------------- C22
\* C22: a call of updateFrame before the poses are loaded, or with a
\* frameIndex at or past the end of the pose sequence or below zero,
\* changes neither currentFrame nor a joint or end-effector rotation nor
\* the hand position, and raises no error.
C22_InvalidFrameChangesNothing ==
    [][\A frameIndex \in FrameIndexes, delta \in Deltas :
          (/\ \/ poses = NULL
               \/ frameIndex >= Len(poses)
               \/ frameIndex < 0
            /\ UpdateFrame(frameIndex, delta))
              => /\ UNCHANGED << currentFrame, joints, eeQuat, hand >>
                 /\ ctx' # "thrown"]_vars

\* ----------------------------------------------------------------- C23
\* The keyframes as updateHandPosition documents them, in thirds of a
\* millimetre.
DocumentedHand(frame) ==
    IF frame < 30 THEN << 600, 0, 0 >>
    ELSE IF frame < 60 THEN << 600 + 10 * (frame - 30), 0, 0 >>
    ELSE << 900, 0, 5 * (frame - 60) >>

\* C23: updateHandPosition puts the hand at (200,0,0) for frames 0-29, on
\* the line from (200,0,0) to (300,0,0) for frames 30-59 and on the line
\* from (300,0,0) to (300,0,50) for frames 60-89.
C23_HandFollowsDocumentedKeyframes ==
    [][\A frame \in HandFrames :
          UpdateHandPositionOf(frame) => hand' = DocumentedHand(frame)]_vars

\* ----------------------------------------------------------------- C24
\* C24: whenever the poses are loaded and the page's displayed index is
\* below their number, the scene's currentFrame is that index.
C24_SceneFrameIsDisplayedIndex ==
    (poses # NULL /\ app.currentIndex < Len(poses))
        => currentFrame = app.currentIndex

\* ----------------------------------------------------------------- C25
\* C25: the handler of the later of the two load events (an image list
\* with at least one image, the video's metadata) leaves playback started
\* with a callback pending; so wherever both have happened and the user
\* has not acted, isPlaying is true.
C25_StartsOnLastLoadEvent ==
    [][/\ (/\ ~(app.imagesLoaded /\ app.videoMetadataLoaded)
           /\ app'.imagesLoaded /\ app'.videoMetadataLoaded)
            => /\ app'.isPlaying
               /\ app'.pending # {}
               /\ ~app.isPlaying => app'.lastFrameAge = Whole(0)
       /\ (app'.imagesLoaded /\ app'.videoMetadataLoaded
              /\ ~app'.userActed)
            => app'.isPlaying]_vars

\* Both load events have happened, the metadata event after the image
\* fetch; playback runs and the user has not acted.
C25_Witness ==
    /\ app.imagesLoaded
    /\ app.videoMetadataLoaded
    /\ app.metadataEvent = "fired"
    /\ ~app.userActed
    /\ app.isPlaying
    /\ app.currentIndex > 0

\* ----------------------------------------------------------------- C26
\* C26: once the images are loaded, currentIndex is an index of the image
\* list; a due animation-frame callback moves it on by one, and from the
\* last index back to 0 with the secondary video set to time 0.
C26_IndexInRangeAndAdvancesByOne ==
    [][/\ app'.imagesLoaded
            => app'.currentIndex \in 0..(Len(app'.images) - 1)
       /\ \A id \in app.pending, k \in DelayHalves, drift \in BOOLEAN :
              (/\ app.imagesLoaded
               /\ LoopIsDue(app, DelayOf(app, k))
               /\ AnimationFrame(id, k, drift))
                  => IF app.currentIndex = Len(app.images) - 1
                     THEN /\ app'.currentIndex = 0
                          /\ app'.videoSeek = Whole(0)
                     ELSE app'.currentIndex = app.currentIndex + 1]_vars

\* Playback has wrapped from the last image to the first one after the
\* scrubber was used.
C26_Witness ==
    /\ app.imagesLoaded
    /\ Len(app.images) > 1
    /\ app.hasScrubber
    /\ app.userActed
    /\ app.isPlaying
    /\ app.currentIndex = 0
    /\ app.videoSeek = Whole(0)

\* ----------------------------------------------------------------- C27
\* C27: at most one callback of the playback loop is pending, none while
\* isPlaying is false, and startPlayback while playing requests none.
C27_AtMostOnePendingCallback ==
    /\ Cardinality(app.pending) <= 1
    /\ app.pending # {} => app.isPlaying
    /\ app.isPlaying
         => \A allowed \in BOOLEAN :
                startPlayback(app, allowed).pending = app.pending

\* Playback was paused and started again: one callback is pending.
C27_Witness ==
    /\ app.userActed
    /\ app.isPlaying
    /\ app.imagesLoaded
    /\ app.currentIndex > 0
    /\ Cardinality(app.pending) = 1

\* ----------------------------------------------------------------- C28
\* C28: while playback is paused no callback of the loop is pending, and
\* a callback of the loop run then, after whatever delay, would leave the
\* displayed index as it is.
C28_PausedIndexKeptByCallbacks ==
    ~app.isPlaying
        => /\ app.pending = {}
           /\ \A k \in DelayHalves, drift \in BOOLEAN :
                  loop(app, DelayOf(app, k), drift).currentIndex
                      = app.currentIndex

\* Playback of a loaded image list was paused in its middle.
C28_Witness ==
    /\ ~app.isPlaying
    /\ app.userActed
    /\ app.imagesLoaded
    /\ app.currentIndex > 0
    /\ app.currentIndex < Len(app.images) - 1

====
